---- MODULE Spec2Model ----
(***************************************************************************)
(* The Fluidra Pool data update coordinator                                *)
(* (custom_components/fluidra_pool/coordinator.py) as a state machine.     *)
(*                                                                         *)
(* Three kinds of task share the coordinator on one asyncio event loop:    *)
(* the refresh cycle (_async_update_data), one client call at a time (a    *)
(* control write or a single-component read) and the quick-update task.    *)
(* A task runs without interruption from one await to the next, so every   *)
(* action below is the code between two awaits of one task.                *)
(***************************************************************************)
EXTENDS Integers, Sequences, FiniteSets, TLC

\* ---------------------------------------------------------------- constants

RETRY_ATTEMPTS == 3
QUICK_UPDATE_INTERVAL == 5
RATE_WINDOW == 60
MIN_API_RATE_LIMIT == 10
DEFAULT_API_RATE_LIMIT == 60
\* const.py, scan intervals in minutes
DEFAULT_SCAN_INTERVAL == 30
MIN_SCAN_INTERVAL == 5
MAX_SCAN_INTERVAL == 120
MAX_API_RATE_LIMIT == 120

\* HTTP statuses the code tells apart; TransportError stands for an exception
\* raised by session.get / session.put instead of a response.
HTTP_OK == 200
HTTP_UNAUTHORIZED == 401
HTTP_FORBIDDEN == 403
HTTP_SERVER_ERROR == 500
TransportError == 0

\* ------------------------------------------------------------------- bounds

\* A behaviour has at most MaxEvents events: the refresh cycles started, the
\* client calls made and the faults of the environment (a failed
\* authentication, a token that expires within the refresh threshold, a
\* response other than 200, a transport error).
MaxEvents == 4
\* schedule_quick_update calls counted per pending quick update (saturating).
MaxBurst == 2
\* The events of a behaviour of the refresh cycle taken alone: enough for a
\* token within the refresh threshold and RETRY_ATTEMPTS failed token
\* refreshes in one cycle.
MaxCycleEvents == 5
\* The events of a behaviour that ends with the shutdown of the coordinator.
MaxLifeEvents == 4

\* The instants (seconds) at which the clock is observed.
Instants == {0, 3, 5, 62}

\* Intervals (minutes) and rate limits found in the config entry or
\* submitted as options (CONF_UPDATE_INTERVAL, CONF_API_RATE_LIMIT), as
\* pairs <<interval, rate limit>>.
ConfiguredSettings == {<<1, 5>>, <<30, 60>>, <<300, 200>>}

\* Responses of the remote API.
Statuses == {HTTP_OK, HTTP_UNAUTHORIZED, HTTP_FORBIDDEN, HTTP_SERVER_ERROR, TransportError}
\* A decoded JSON object is 0 when it is {} and a positive number otherwise.
Empty == 0
JsonPayloads == {1}

\* Arguments of the client calls.
DeviceIds == {"d1"}
ComponentIds == {15}
DesiredValues == {1, 250}
WriteOps == {"set_component_value", "set_temperature_value", "set_power_value"}

\* The data sources of a refresh cycle, in the order of _async_update_data.
CONSUMER == 1
DEVICES == 2
USER_PROFILE == 3
USER_POOLS == 4
DEVICE_COMPONENTS == 5
DEVICE_UICONFIG == 6
Sources == CONSUMER..DEVICE_UICONFIG

VARIABLES
  now,                      \* datetime.now(), seconds
  config_entry,             \* the config entry: its data, its options, its state
  update_interval,          \* self.update_interval, minutes
  api_rate_limit,           \* self.api_rate_limit
  payload,                  \* the payload handed to a normalizer last, and
                            \* the source it came from
  api_calls,                \* self.api_calls: timestamps, oldest first
  last_api_call,            \* self.last_api_call, -1 for None
  token_expiry,             \* auth.token_expiry: "none", "valid", "soon"
  consumer_data,
  devices,
  user_profile_data,
  pool_status_data,
  user_pools_data,
  device_components_data,   \* device id -> set of component keys (strings)
  device_uiconfig_data,
  error_information,
  quick_update_scheduled,   \* self.quick_update_scheduled
  quick_update_task,        \* self.quick_update_task
  cyc,                      \* position of the refresh cycle
  call,                     \* position of the client call
  cyc_failed,               \* history: sources whose fetch failed this cycle
  inflight,                 \* history: the _async_update_data calls in
                            \* progress, and whether a request was coalesced
                            \* with them
  burst,                    \* history: the schedule_quick_update calls of
                            \* the pending quick update
  used,                     \* history: cycles, client calls and faults so far
  budget,                   \* the number of events the behaviour may have
  session                   \* self.session: "open" or "closed"

window == <<api_calls, last_api_call>>
snapshot == <<consumer_data, devices, user_profile_data, pool_status_data,
              user_pools_data, device_components_data, device_uiconfig_data,
              error_information>>
quickvars == <<quick_update_scheduled, quick_update_task, burst>>
cycvars == <<cyc, cyc_failed, inflight>>
setup == <<config_entry, update_interval, api_rate_limit, payload, budget,
           session>>
vars == <<now, setup, window, token_expiry, snapshot, quickvars,
          cycvars, call, used>>

\* ------------------------------------------------------------ config entry

\* config_entry.data: the interval in minutes, the rate limit and the device
\* id (None when the key is missing).
EntryData(interval, limit, device_id) ==
  [update_interval |-> interval, api_rate_limit |-> limit, device_id |-> device_id]

\* No options have been submitted.
NoOptions == <<>>

\* user_input of the options form
UserInput(interval, limit) ==
  [update_interval |-> interval, api_rate_limit |-> limit]

\* An entry that is set up, and one that waits for its set up.
Loaded(data) ==
  [data |-> data, options |-> NoOptions, state |-> "loaded"]
NotLoaded(data, options) ==
  [data |-> data, options |-> options, state |-> "not_loaded"]

\* A constructor that tests the interval against its minimum only.
ClampScanIntervalFromBelow(i) ==
  IF i < MIN_SCAN_INTERVAL THEN MIN_SCAN_INTERVAL ELSE i

\* __init__: the configured interval clamped into [MIN, MAX].
ClampScanInterval(i) ==
  IF i < MIN_SCAN_INTERVAL THEN MIN_SCAN_INTERVAL
  ELSE IF i > MAX_SCAN_INTERVAL THEN MAX_SCAN_INTERVAL
  ELSE i

\* ------------------------------------------------------------ rate limiter

\* __init__: the configured rate limit clamped into [MIN, MAX].
ClampRateLimit(r) ==
  IF r < MIN_API_RATE_LIMIT THEN MIN_API_RATE_LIMIT
  ELSE IF r > MAX_API_RATE_LIMIT THEN MAX_API_RATE_LIMIT
  ELSE r

\* FluidraPoolOptionsFlow.async_step_init: the data the entry is updated
\* with, the submitted values clamped by the flow's own tests.
OptionsData(data, input) ==
  [data EXCEPT
     !.update_interval =
        IF input.update_interval < MIN_SCAN_INTERVAL THEN MIN_SCAN_INTERVAL
        ELSE IF input.update_interval > MAX_SCAN_INTERVAL THEN MAX_SCAN_INTERVAL
        ELSE input.update_interval,
     !.api_rate_limit =
        IF input.api_rate_limit < MIN_API_RATE_LIMIT THEN MIN_API_RATE_LIMIT
        ELSE IF input.api_rate_limit > MAX_API_RATE_LIMIT THEN MAX_API_RATE_LIMIT
        ELSE input.api_rate_limit]

\* An admission check that counts the call it is asked about.
PurgeOldRecording(calls, t) ==
  Append(SelectSeq(calls, LAMBDA c : t - c < RATE_WINDOW), t)

\* _check_rate_limit, first half: drop the calls older than one minute.
PurgeOld(calls, t) ==
  SelectSeq(calls, LAMBDA c : t - c < RATE_WINDOW)

\* _check_rate_limit, second half: the answer, on the purged window.
UnderLimit(calls) ==
  Len(calls) < api_rate_limit

\* _record_api_call
RecordCall(calls, t) ==
  Append(calls, t)

\* ----------------------------------------------------------- authenticator

\* auth.refresh_token_if_needed, its two tests: TRUE when the stored token
\* is accepted without a call to authenticate().
TokenStillValid(tok) ==
  tok = "valid"

\* The ways authenticate() returns: False ("failed"), or True with a
\* token_expiry beyond the refresh threshold ("valid") or within it ("soon").
AuthResults == {"valid", "soon", "failed"}

\* authenticate() stores the new expiry only when it succeeds.
ExpiryAfter(tok, result) ==
  IF result = "failed" THEN tok ELSE result

\* ------------------------------------------------------------- JSON values

\* Python's None, among string values.
None == "None"

\* bool(v) of a string or None.
Truthy(v) ==
  v # None /\ v # ""

\* A component id as the API may give it: an integer, a string, or absent.
IntId(n) == [t |-> "int", n |-> n, s |-> ""]
StrId(str) == [t |-> "str", n |-> 0, s |-> str]
NoId == [t |-> "none", n |-> 0, s |-> ""]
\* An item of the components payload that is no JSON object.
NotAComponent == [t |-> "bad", n |-> 0, s |-> ""]

\* str(component_id) of an integer
Str(id) ==
  CASE id = 0 -> "0"
    [] id = 13 -> "13"
    [] id = 15 -> "15"
    [] id = 19 -> "19"

\* str(component_id)
StrOf(id) ==
  CASE id.t = "int" -> Str(id.n)
    [] id.t = "str" -> id.s
    [] OTHER -> None

\* bool(component_id)
IdTruthy(id) ==
  CASE id.t = "int" -> id.n # 0
    [] id.t = "str" -> id.s # ""
    [] OTHER -> FALSE

\* const.ERROR_CODES
ERROR_CODES ==
  ("AUTH_FAILED" :> "Authentication failed") @@
  ("RATE_LIMIT_EXCEEDED" :> "API rate limit exceeded") @@
  ("DEVICE_NOT_FOUND" :> "Device not found") @@
  ("POOL_NOT_FOUND" :> "Pool not found") @@
  ("COMPONENT_NOT_FOUND" :> "Component not found") @@
  ("API_ERROR" :> "API request failed") @@
  ("NETWORK_ERROR" :> "Network connection error") @@
  ("TIMEOUT_ERROR" :> "Request timeout") @@
  ("INVALID_RESPONSE" :> "Invalid API response") @@
  ("TOKEN_EXPIRED" :> "Authentication token expired") @@
  ("REFRESH_FAILED" :> "Token refresh failed") @@
  ("UNKNOWN_ERROR" :> "Unknown error occurred")

\* An alarm of a device: its type, its errorCode and its default text
\* (None where the key is missing).
Alarm(type, code, text) == [type |-> type, errorCode |-> code, text |-> text]

\* A device object of the devices payload: its id (None when missing), its
\* alarms and the ids of its components; dict is FALSE for an item that is
\* no JSON object.  A device holds the keys _process_device reads, "data" is
\* none of them.
RawDevice(id, alarms, components) ==
  [dict |-> TRUE, id |-> id, alarms |-> alarms, components |-> components]
NotADevice == [dict |-> FALSE, id |-> None, alarms |-> <<>>, components |-> <<>>]
NoDevice == RawDevice(None, <<>>, <<>>)

\* A devices payload: a list of items, or an object that may hold a list
\* under "data" and the keys of a device, or neither (a string, a number).
JList(items) ==
  [kind |-> "list", data_is_list |-> FALSE, items |-> items, obj |-> NoDevice]
JEnvelope(items) ==
  [kind |-> "object", data_is_list |-> TRUE, items |-> items, obj |-> NoDevice]
JObject(dev) ==
  [kind |-> "object", data_is_list |-> FALSE, items |-> <<>>, obj |-> dev]
JScalar ==
  [kind |-> "scalar", data_is_list |-> FALSE, items |-> <<>>, obj |-> NoDevice]

\* ------------------------------------------------------------- normalizers

\* _process_device: the alarms.
HasErrorAlarm(alarms) ==
  \E i \in DOMAIN alarms : alarms[i].type = "error"

\* An alarm summary that reports the last alarm of type error.
LastErrorAlarm(alarms) ==
  alarms[CHOOSE i \in DOMAIN alarms :
           /\ alarms[i].type = "error"
           /\ \A j \in DOMAIN alarms : alarms[j].type = "error" => j <= i]

FirstErrorAlarm(alarms) ==
  alarms[CHOOSE i \in DOMAIN alarms :
           /\ alarms[i].type = "error"
           /\ \A j \in DOMAIN alarms : alarms[j].type = "error" => i <= j]

\* ERROR_CODES.get(error_code, alarm.get("default", {}).get("text", "Unknown error"))
ErrorMessage(alarm) ==
  IF alarm.errorCode \in DOMAIN ERROR_CODES THEN ERROR_CODES[alarm.errorCode]
  ELSE IF alarm.text = None THEN "Unknown error"
  ELSE alarm.text

\* _process_device: the processed record of one device; its components are
\* keyed by the component id as the payload gives it.
ProcessDevice(device) ==
  [id |-> device.id,
   alarms |-> device.alarms,
   alarm_count |-> Len(device.alarms),
   alarm_status |-> IF device.alarms = <<>> THEN "normal"
                    ELSE IF HasErrorAlarm(device.alarms) THEN "error"
                    ELSE "warning",
   error_code |-> IF HasErrorAlarm(device.alarms)
                  THEN FirstErrorAlarm(device.alarms).errorCode ELSE None,
   error_message |-> IF HasErrorAlarm(device.alarms)
                     THEN ErrorMessage(FirstErrorAlarm(device.alarms)) ELSE None,
   components |-> {device.components[i] : i \in
                     {j \in DOMAIN device.components : IdTruthy(device.components[j])}}]

\* processed_data[device_id] = record: a dict keeps the place of a key it
\* already holds.
RECURSIVE PutDevice(_, _)
PutDevice(devs, record) ==
  IF devs = <<>> THEN <<record>>
  ELSE IF Head(devs).id = record.id THEN <<record>> \o Tail(devs)
  ELSE <<Head(devs)>> \o PutDevice(Tail(devs), record)

\* _process_devices_data: the loop over the items of a list.
RECURSIVE ProcessDeviceList(_, _)
ProcessDeviceList(items, done) ==
  IF items = <<>> THEN done
  ELSE ProcessDeviceList(Tail(items),
         IF Truthy(Head(items).id)
         THEN PutDevice(done, ProcessDevice(Head(items))) ELSE done)

\* A device normalizer that takes an object for a single device even when
\* the object holds a list under "data".
ProcessDevicesDataWithoutEnvelope(raw) ==
  IF raw.kind = "list"
  THEN IF \E i \in DOMAIN raw.items : ~raw.items[i].dict
       THEN <<>>
       ELSE ProcessDeviceList(raw.items, <<>>)
  ELSE IF raw.kind = "object"
  THEN IF Truthy(raw.obj.id) THEN <<ProcessDevice(raw.obj)>> ELSE <<>>
  ELSE <<>>

\* A device normalizer that catches the exception of each item and keeps
\* the devices it could process.
ProcessDevicesDataSkippingMalformed(raw) ==
  IF raw.kind = "list" \/ (raw.kind = "object" /\ raw.data_is_list)
  THEN ProcessDeviceList(SelectSeq(raw.items, LAMBDA d : d.dict), <<>>)
  ELSE IF raw.kind = "object"
  THEN IF Truthy(raw.obj.id) THEN <<ProcessDevice(raw.obj)>> ELSE <<>>
  ELSE <<>>

\* _process_devices_data: the devices in mapping order; an exception (an
\* item or a payload that is no object) gives the empty mapping.
ProcessDevicesData(raw) ==
  IF raw.kind = "list" \/ (raw.kind = "object" /\ raw.data_is_list)
  THEN IF \E i \in DOMAIN raw.items : ~raw.items[i].dict
       THEN <<>>
       ELSE ProcessDeviceList(raw.items, <<>>)
  ELSE IF raw.kind = "object"
  THEN IF Truthy(raw.obj.id) THEN <<ProcessDevice(raw.obj)>> ELSE <<>>
  ELSE <<>>

\* A component normalizer that keys the mapping by the id as the payload
\* gives it.
ProcessDeviceComponentsDataRawKeys(raw) ==
  IF raw.kind = "list" \/ (raw.kind = "object" /\ raw.data_is_list)
  THEN IF \E i \in DOMAIN raw.items : raw.items[i] = NotAComponent
       THEN {}
       ELSE
       {raw.items[i] : i \in {j \in DOMAIN raw.items : raw.items[j].t # "none"}}
  ELSE {}

\* _process_device_components_data: the keys of the processed mapping; the
\* payload is a list of components or an object with such a list under
\* "data", each component given by its id; an exception (an item that is no
\* object) gives the empty mapping.
ProcessDeviceComponentsData(raw) ==
  IF raw.kind = "list" \/ (raw.kind = "object" /\ raw.data_is_list)
  THEN IF \E i \in DOMAIN raw.items : raw.items[i] = NotAComponent
       THEN {}
       ELSE {StrId(StrOf(raw.items[i])) :
               i \in {j \in DOMAIN raw.items : raw.items[j].t # "none"}}
  ELSE {}

\* The except branch of a normalizer is taken: the payload of the devices
\* is no object or holds an item that is none, the list of components holds
\* an item that is no object.
Raises(s, raw) ==
  CASE s = DEVICES ->
         \/ raw.kind = "scalar"
         \/ /\ raw.kind = "list" \/ raw.data_is_list
            /\ \E i \in DOMAIN raw.items : ~raw.items[i].dict
    [] s = DEVICE_COMPONENTS ->
         /\ raw.kind = "list" \/ raw.data_is_list
         /\ \E i \in DOMAIN raw.items : raw.items[i] = NotAComponent
    [] OTHER -> FALSE

\* device_components.get(str(component_id)) or device_components.get(component_id)
\* on the keys of a mapping
GetStrThenRaw(keys, id) ==
  StrId(StrOf(id)) \in keys \/ id \in keys

\* device_components.get(19) or device_components.get("19"), for any number
GetIntThenStr(keys, n) ==
  IntId(n) \in keys \/ StrId(Str(n)) \in keys

\* _process_error_information: the test on a device's record.
HasErrorSignal(device) ==
  Truthy(device.error_code) \/ Truthy(device.error_message)
    \/ Truthy(device.alarm_status)

\* _process_error_information: the record made of a device.
ErrorRecord(device, t) ==
  [error_code |-> device.error_code,
   error_message |-> device.error_message,
   alarm_status |-> device.alarm_status,
   alarm_count |-> device.alarm_count,
   device_id |-> device.id,
   timestamp |-> t,
   error_description |-> IF Truthy(device.error_code)
                            /\ device.error_code \in DOMAIN ERROR_CODES
                         THEN ERROR_CODES[device.error_code]
                         ELSE "Unknown error"]

\* self.error_information = {}
NoErrorInformation == <<>>

\* _process_error_information at time t: the configured device when it is
\* known, otherwise the first device, in mapping order, with an error signal.
DeriveErrorInformation(devs, device_id, t) ==
  LET known == {i \in DOMAIN devs : devs[i].id = device_id}
      signalling == {i \in DOMAIN devs : HasErrorSignal(devs[i])}
  IN IF devs # <<>> /\ Truthy(device_id) /\ known # {}
     THEN LET d == devs[CHOOSE i \in known : TRUE]
          IN IF HasErrorSignal(d) THEN ErrorRecord(d, t) ELSE NoErrorInformation
     ELSE IF signalling # {}
     THEN ErrorRecord(devs[CHOOSE i \in signalling : \A j \in signalling : i <= j], t)
     ELSE NoErrorInformation

\* ------------------------------------------------------------------ history

\* The events so far.
Spent == used.cycles + used.ops + used.faults

\* The environment misbehaves (fault) only while faults remain.
Charge(fault) ==
  /\ fault => Spent < budget
  /\ used' = IF fault THEN [used EXCEPT !.faults = @ + 1] ELSE used

\* The answer to a request: a failure counts as a fault, and the failure of
\* a request made on a closed session needs no fault of the environment.
ChargeSent(fault, closed) ==
  /\ (fault /\ ~closed) => Spent < budget
  /\ used' = IF fault THEN [used EXCEPT !.faults = @ + 1] ELSE used

\* ------------------------------------------------------------ refresh cycle

\* DataUpdateCoordinator.async_request_refresh and the update interval: a
\* request starts a cycle when none is in progress and is coalesced with the
\* cycle in progress otherwise.
StartsCycleAlways(c) ==
  TRUE

StartsCycle(c) ==
  c.st = "idle"

NoRefresh == [running |-> 0, coalesced |-> FALSE]

\* _async_update_data is called.
Started(f) == [running |-> f.running + 1, coalesced |-> FALSE]

\* No cycle is in progress; out is how the last one ended for its caller:
\* "data" (the summary is returned), "auth_failed" (ConfigEntryAuthFailed),
\* "update_failed" (UpdateFailed), "none" before the first one.
CycIdle == [st |-> "idle", src |-> 0, att |-> 0, dev |-> "", out |-> "none",
            admitted |-> FALSE, refused |-> {}, final401 |-> {},
            closed |-> FALSE, checked |-> FALSE, raised |-> {}]

\* _fetch_with_retries: the attribute whose emptiness decides a retry,
\* fetch_func.__name__.replace('_fetch_', '') + '_data'.
RetryAttribute(s) ==
  CASE s = CONSUMER -> "consumer_data_data"
    [] s = DEVICES -> "devices_data_data"
    [] s = USER_PROFILE -> "user_profile_data_data"
    [] s = USER_POOLS -> "user_pools_data_data"
    [] s = DEVICE_COMPONENTS -> "device_components_data_data"
    [] s = DEVICE_UICONFIG -> "device_uiconfig_data_data"

\* The attributes __init__ gives the coordinator.
CoordinatorAttributes ==
  {"devices", "consumer_data", "user_profile_data", "pool_status_data",
   "user_pools_data", "device_components_data", "device_uiconfig_data",
   "error_information"}

\* _fetch_with_retries: hasattr(self, <retry attribute>)
HasRetryAttribute(s) ==
  RetryAttribute(s) \in CoordinatorAttributes

\* The fetch functions that call _check_rate_limit before their request.
ChecksRateLimit(s) ==
  s \in {CONSUMER, DEVICES, USER_PROFILE}

\* The fetch functions that re-authenticate and repeat the GET after a 401.
RetriesAfter401(s) ==
  s \in {CONSUMER, DEVICES}

\* The stored data of source s counts as empty (the "if data:" test).
StoredEmpty(s) ==
  CASE s = CONSUMER -> consumer_data = Empty
    [] s = DEVICES -> devices = <<>>
    [] s = USER_PROFILE -> user_profile_data = Empty
    [] s = USER_POOLS -> user_pools_data = Empty
    [] s = DEVICE_COMPONENTS -> DOMAIN device_components_data = {}
    [] s = DEVICE_UICONFIG -> device_uiconfig_data = Empty

\* The code of the cycle from the start of attempt a for source s up to its
\* next await.  w is the rate window; tok and devs are token_expiry and
\* self.devices as they stand.
RECURSIVE EnterSource(_, _, _, _, _, _)
RECURSIVE FetchPrefix(_, _, _, _, _, _)
RECURSIVE AfterFetch(_, _, _, _, _, _, _)

\* The position of the cycle while it awaits something.  admitted tells
\* whether _check_rate_limit was called and returned True in the running
\* attempt, refused holds the sources of the cycle whose fetch function
\* returned at a refused admission, final401 the sources of the cycle whose
\* fetch function took a 401 as its final answer without authenticating
\* again, closed whether the request awaited was made on a closed session
\* (session.get then raises, which the fetch function catches as it catches
\* the failure of a request), checked whether refresh_token_if_needed
\* returned True in the running attempt, raised the source whose normalizer
\* caught an exception ("Error processing ... data") in the step that
\* brought the cycle here.
Awaiting(st, s, a, dev, w) ==
  [cyc |-> [st |-> st, src |-> s, att |-> a, dev |-> dev, out |-> "none",
            admitted |-> w.admitted, refused |-> w.refused,
            final401 |-> w.final401,
            closed |-> st \in {"get", "reget"} /\ session = "closed",
            checked |-> w.checked, raised |-> w.raised],
   calls |-> w.calls, last |-> w.last]

\* _async_update_data ends: it returns its summary or raises.
Returns(w, out) ==
  [cyc |-> [CycIdle EXCEPT !.out = out], calls |-> w.calls, last |-> w.last]

\* _async_update_data returns.
Completed(w) ==
  Returns(w, "data")

\* An authentication failure that counts as an API call.
AuthFailedRecording(w) ==
  Returns([w EXCEPT !.calls = RecordCall(w.calls, now), !.last = now],
          "auth_failed")

\* _async_update_data: raise ConfigEntryAuthFailed
AuthFailed(w) ==
  Returns(w, "auth_failed")

\* A retry loop that lets the cycle fail when a source is left empty.
AfterFetchRaising(s, a, dev, w, tok, devs, empty) ==
  IF empty
  THEN Returns(w, "update_failed")
  ELSE EnterSource(s + 1, 1, dev, w, tok, devs)

\* A cycle that gives up at the first source left empty.
AfterFetchGivingUp(s, a, dev, w, tok, devs, empty) ==
  IF empty
  THEN Completed(w)
  ELSE EnterSource(s + 1, 1, dev, w, tok, devs)

\* _fetch_*: from the admission check to the session.get that is awaited.
FetchPrefix(s, a, dev, w, tok, devs) ==
  IF ChecksRateLimit(s)
  THEN LET purged == PurgeOld(w.calls, now) IN
       IF ~UnderLimit(purged)
       THEN \* refused: the fetch returns without a request
            AfterFetch(s, a, dev,
                       [w EXCEPT !.calls = purged, !.refused = @ \cup {s}],
                       tok, devs, StoredEmpty(s))
       ELSE Awaiting("get", s, a, dev,
                     [w EXCEPT !.calls = RecordCall(purged, now), !.last = now,
                               !.admitted = TRUE])
  ELSE Awaiting("get", s, a, dev,
                [w EXCEPT !.calls = RecordCall(w.calls, now), !.last = now])

\* A cycle that asks for the components and the UI config of the last
\* device of the map.
EnterSourceOfLastDevice(s, a, dev, w0, tok, devs) ==
  IF s > DEVICE_UICONFIG \/ (s = DEVICE_COMPONENTS /\ a = 1 /\ devs = <<>>)
  THEN Completed(w0)
  ELSE LET d == IF s = DEVICE_COMPONENTS /\ a = 1
                THEN devs[Len(devs)].id ELSE dev
           w == [w0 EXCEPT !.admitted = FALSE,
                           !.checked = TokenStillValid(tok)]
       IN IF TokenStillValid(tok)
          THEN FetchPrefix(s, a, d, w, tok, devs)
          ELSE Awaiting("tok", s, a, d, w)

\* _async_update_data / _fetch_with_retries: the next source or attempt.
EnterSource(s, a, dev, w0, tok, devs) ==
  IF s > DEVICE_UICONFIG \/ (s = DEVICE_COMPONENTS /\ a = 1 /\ devs = <<>>)
  THEN Completed(w0)
  ELSE LET d == IF s = DEVICE_COMPONENTS /\ a = 1 THEN Head(devs).id ELSE dev
           w == [w0 EXCEPT !.admitted = FALSE,
                           !.checked = TokenStillValid(tok)]
       IN IF TokenStillValid(tok)
          THEN FetchPrefix(s, a, d, w, tok, devs)
          ELSE Awaiting("tok", s, a, d, w)

\* _fetch_with_retries after fetch_func has returned: done with the source
\* unless its retry attribute exists and is empty.
AfterFetch(s, a, dev, w, tok, devs, empty) ==
  IF HasRetryAttribute(s) /\ empty
  THEN Awaiting("sleep", s, a, dev, w)
  ELSE EnterSource(s + 1, 1, dev, w, tok, devs)

\* A retry loop that never gives up on a source.
AfterRetryDelayForever(s, a, dev, w, tok, devs) ==
  EnterSource(s, a + 1, dev, w, tok, devs)

\* _fetch_with_retries after asyncio.sleep(RETRY_DELAY).
AfterRetryDelay(s, a, dev, w, tok, devs) ==
  IF a < RETRY_ATTEMPTS
  THEN EnterSource(s, a + 1, dev, w, tok, devs)
  ELSE EnterSource(s + 1, 1, dev, w, tok, devs)

\* The rate window, with what the cycle knows of its admission checks; the
\* mark of a normalizer that raised is for the next position only.
RateWindow == [calls |-> api_calls, last |-> last_api_call,
               admitted |-> cyc.admitted, refused |-> cyc.refused,
               final401 |-> cyc.final401, checked |-> cyc.checked,
               raised |-> {}]

\* The quick-update task awaits the refresh it requested; the end of the
\* cycle makes it runnable again.
WakeQuickTask(c) ==
  IF c.st = "idle" /\ quick_update_task.st = "refreshing"
  THEN [quick_update_task EXCEPT !.st = "resumed"]
  ELSE quick_update_task

\* The cycle moves on: r is what EnterSource and its like return; failed is
\* what the step adds to the failed sources of the cycle.
CycleMoves(r, failed) ==
  /\ cyc' = r.cyc
  /\ api_calls' = r.calls
  /\ last_api_call' = r.last
  /\ cyc_failed' = IF r.cyc.st = "idle" THEN {} ELSE cyc_failed \cup failed
  /\ inflight' = IF r.cyc.st = "idle"
                 THEN [running |-> inflight.running - 1, coalesced |-> FALSE]
                 ELSE inflight
  /\ quick_update_task' = WakeQuickTask(r.cyc)
  /\ UNCHANGED <<now, setup, quick_update_scheduled, burst, call,
                 pool_status_data, error_information>>

\* The device the API knows: it has an error alarm and one component, whose
\* id the API gives as a number.
PoolDevice ==
  RawDevice("d1", <<Alarm("error", "E001", None)>>, <<IntId(15)>>)

\* A second device of the account, listed after the first.
OtherDevice ==
  RawDevice("d2", <<>>, <<>>)

\* The devices payload: no device, two devices, a device and an item that
\* is no object, or no JSON object at all.
DevicePayloads ==
  {JList(<<>>), JList(<<PoolDevice, OtherDevice>>),
   JList(<<PoolDevice, NotADevice>>), JScalar}
\* The components payload of one device: no component, one component, or a
\* component and an item that is no object.
ComponentPayloads ==
  {JList(<<>>), JList(<<IntId(15)>>), JList(<<IntId(15), NotAComponent>>)}

\* The bodies a source can answer with, the value a fetch function stores
\* for a failure, and the body of a failure.
Bodies(s) ==
  CASE s = DEVICES -> DevicePayloads
    [] s = DEVICE_COMPONENTS -> ComponentPayloads
    [] OTHER -> JsonPayloads

NoBody(s) ==
  CASE s = DEVICES -> <<>>
    [] s = DEVICE_COMPONENTS -> {}
    [] OTHER -> Empty

FailureBody(s) ==
  IF s \in {DEVICES, DEVICE_COMPONENTS} THEN JScalar ELSE Empty

Responses(s) ==
  {[status |-> HTTP_OK, body |-> b] : b \in Bodies(s)}
    \cup {[status |-> c, body |-> FailureBody(s)] : c \in Statuses \ {HTTP_OK}}

\* A fetch function that leaves the data alone when the response is no 200.
StoredUnlessFailed(s, resp) ==
  IF resp.status = HTTP_OK
  THEN CASE s = DEVICES -> ProcessDevicesData(resp.body)
         [] s = DEVICE_COMPONENTS -> ProcessDeviceComponentsData(resp.body)
         [] OTHER -> resp.body
  ELSE CASE s = CONSUMER -> consumer_data
         [] s = DEVICES -> devices
         [] s = USER_PROFILE -> user_profile_data
         [] s = USER_POOLS -> user_pools_data
         [] s = DEVICE_COMPONENTS ->
              IF cyc.dev \in DOMAIN device_components_data
              THEN device_components_data[cyc.dev] ELSE {}
         [] s = DEVICE_UICONFIG -> device_uiconfig_data

\* What a fetch function stores for a response it takes as final: the
\* normalized body of a 200, the empty value of anything else.
Stored(s, resp) ==
  IF resp.status = HTTP_OK
  THEN CASE s = DEVICES -> ProcessDevicesData(resp.body)
         [] s = DEVICE_COMPONENTS -> ProcessDeviceComponentsData(resp.body)
         [] OTHER -> resp.body
  ELSE NoBody(s)

\* self.<attribute of s> = v; the components are stored under the device id.
Store(s, dev, v) ==
  /\ consumer_data' = IF s = CONSUMER THEN v ELSE consumer_data
  /\ devices' = IF s = DEVICES THEN v ELSE devices
  /\ user_profile_data' = IF s = USER_PROFILE THEN v ELSE user_profile_data
  /\ user_pools_data' = IF s = USER_POOLS THEN v ELSE user_pools_data
  /\ device_components_data' =
       IF s = DEVICE_COMPONENTS
       THEN [d \in DOMAIN device_components_data \cup {dev} |->
               IF d = dev THEN v ELSE device_components_data[d]]
       ELSE device_components_data
  /\ device_uiconfig_data' = IF s = DEVICE_UICONFIG THEN v ELSE device_uiconfig_data

fetched == <<consumer_data, devices, user_profile_data, user_pools_data,
             device_components_data, device_uiconfig_data>>

\* "if data:" on the attribute just stored.
IsEmptyValue(s, v) ==
  CASE s = DEVICES -> v = <<>>
    [] s = DEVICE_COMPONENTS -> FALSE
    [] OTHER -> v = Empty

\* A fetch function takes resp as its final answer: it stores the data and
\* returns to _fetch_with_retries.
FetchEnds(resp) ==
  LET s == cyc.src
      v == Stored(s, resp)
      devs == IF s = DEVICES THEN v ELSE devices
      w == IF cyc.st = "get" /\ resp.status = HTTP_UNAUTHORIZED
           THEN [RateWindow EXCEPT !.final401 = @ \cup {s}]
           ELSE IF resp.status = HTTP_OK /\ Raises(s, resp.body)
           THEN [RateWindow EXCEPT !.raised = @ \cup {s}]
           ELSE RateWindow
  IN /\ Store(s, cyc.dev, v)
     /\ CycleMoves(AfterFetch(s, cyc.att, cyc.dev, w, token_expiry,
                              devs, IsEmptyValue(s, v)),
                   IF resp.status = HTTP_OK THEN {} ELSE {s})

\* DataUpdateCoordinator.async_request_refresh / the update interval: a
\* refresh starts when none is running.  The platforms and the interval are
\* gone when the coordinator is shut down.
StartRefresh ==
  /\ session = "open"
  /\ IF StartsCycle(cyc)
     THEN /\ Spent < budget
          /\ used' = [used EXCEPT !.cycles = @ + 1]
          /\ cyc' = [CycIdle EXCEPT !.st = "auth"]
          /\ cyc_failed' = {}
          /\ inflight' = Started(inflight)
     ELSE UNCHANGED <<cycvars, used>>
  /\ UNCHANGED <<now, setup, window, token_expiry, snapshot,
                 quickvars, call>>

\* _async_update_data: authenticate() has returned.
CycleAuthenticated(result) ==
  /\ cyc.st = "auth"
  /\ Charge(result # "valid")
  /\ token_expiry' = ExpiryAfter(token_expiry, result)
  /\ IF result # "failed"
     THEN CycleMoves(EnterSource(CONSUMER, 1, "", RateWindow, result, devices), {})
     ELSE CycleMoves(AuthFailed(RateWindow), {})
  /\ UNCHANGED fetched

\* A retry loop that calls the fetch function whatever
\* refresh_token_if_needed returned.
CycleTokenRefreshedIgnoringFailure(result) ==
  /\ cyc.st = "tok"
  /\ Charge(result # "valid")
  /\ token_expiry' = ExpiryAfter(token_expiry, result)
  /\ CycleMoves(FetchPrefix(cyc.src, cyc.att, cyc.dev,
                            [RateWindow EXCEPT !.checked = result # "failed"],
                            result, devices), {})
  /\ UNCHANGED fetched

\* _fetch_with_retries: refresh_token_if_needed() had to authenticate and
\* has returned.
CycleTokenRefreshed(result) ==
  /\ cyc.st = "tok"
  /\ Charge(result # "valid")
  /\ token_expiry' = ExpiryAfter(token_expiry, result)
  /\ IF result # "failed"
     THEN CycleMoves(FetchPrefix(cyc.src, cyc.att, cyc.dev,
                                 [RateWindow EXCEPT !.checked = TRUE], result,
                                 devices), {})
     ELSE CycleMoves(Awaiting("sleep", cyc.src, cyc.att, cyc.dev, RateWindow), {})
  /\ UNCHANGED fetched

\* _fetch_with_retries: asyncio.sleep(RETRY_DELAY) is over.
CycleRetryDelayOver ==
  /\ cyc.st = "sleep"
  /\ CycleMoves(AfterRetryDelay(cyc.src, cyc.att, cyc.dev, RateWindow,
                                token_expiry, devices), {})
  /\ UNCHANGED <<token_expiry, fetched, used>>

\* _fetch_*: the response of the GET (or the exception it raised, the only
\* outcome of a GET made on a closed session).
CycleResponse(resp) ==
  /\ cyc.st = "get"
  /\ resp \in Responses(cyc.src)
  /\ cyc.closed => resp.status = TransportError
  /\ ChargeSent(resp.status # HTTP_OK, cyc.closed)
  /\ IF resp.status = HTTP_UNAUTHORIZED /\ RetriesAfter401(cyc.src)
     THEN /\ CycleMoves(Awaiting("reauth", cyc.src, cyc.att, cyc.dev, RateWindow), {})
          /\ UNCHANGED fetched
     ELSE FetchEnds(resp)
  /\ UNCHANGED token_expiry

\* _fetch_consumer_data / _fetch_devices_data: authenticate() after a 401 has
\* returned; on success the GET is repeated with the new headers.
CycleReauthenticated(result) ==
  /\ cyc.st = "reauth"
  /\ Charge(result # "valid")
  /\ token_expiry' = ExpiryAfter(token_expiry, result)
  /\ IF result # "failed"
     THEN /\ CycleMoves(Awaiting("reget", cyc.src, cyc.att, cyc.dev, RateWindow), {})
          /\ UNCHANGED fetched
     ELSE FetchEnds([status |-> HTTP_UNAUTHORIZED, body |-> FailureBody(cyc.src)])

\* _fetch_consumer_data / _fetch_devices_data: the response of the repeated GET.
CycleRetryResponse(resp) ==
  /\ cyc.st = "reget"
  /\ resp \in Responses(cyc.src)
  /\ cyc.closed => resp.status = TransportError
  /\ ChargeSent(resp.status # HTTP_OK, cyc.closed)
  /\ FetchEnds(resp)
  /\ UNCHANGED token_expiry

\* --------------------------------------------------------------- quick update

NoTask == [st |-> "none", deadline |-> 0]
NoBurst == [calls |-> 0, made |-> 0, reqs |-> 0, last_call |-> 0]

QuickState == [flag |-> quick_update_scheduled, task |-> quick_update_task,
               burst |-> burst]

\* A schedule_quick_update without its early return: every call cancels the
\* unfinished task and creates a new one.
ScheduleQuickUpdateUnguarded(q, t) ==
  [flag |-> TRUE,
   task |-> [st |-> "sleeping", deadline |-> t + QUICK_UPDATE_INTERVAL],
   burst |-> [q.burst EXCEPT !.calls = IF @ < MaxBurst THEN @ + 1 ELSE @,
                             !.last_call = t,
                             !.made = @ + 1]]

\* schedule_quick_update at time t: nothing when the flag is set; otherwise
\* the flag is set, an unfinished task is cancelled and a new task is
\* created, which sleeps QUICK_UPDATE_INTERVAL seconds.
ScheduleQuickUpdate(q, t) ==
  LET counted == [q.burst EXCEPT
                    !.calls = IF @ < MaxBurst THEN @ + 1 ELSE @,
                    !.last_call = t]
  IN IF q.flag
     THEN [q EXCEPT !.burst = counted]
     ELSE [flag |-> TRUE,
           task |-> [st |-> "sleeping", deadline |-> t + QUICK_UPDATE_INTERVAL],
           burst |-> [counted EXCEPT !.made = @ + 1]]

\* _quick_update: asyncio.sleep(QUICK_UPDATE_INTERVAL) may return.
SleepIsOver(task, t) ==
  t >= task.deadline

\* _quick_update: the sleep is over and async_request_refresh() is awaited;
\* the request starts a cycle unless one is running, which it then joins.
QuickSleepOver ==
  /\ quick_update_task.st = "sleeping"
  /\ SleepIsOver(quick_update_task, now)
  /\ quick_update_task' = [quick_update_task EXCEPT !.st = "refreshing"]
  /\ burst' = [burst EXCEPT !.reqs = @ + 1]
  /\ IF StartsCycle(cyc)
     THEN /\ Spent < budget
          /\ used' = [used EXCEPT !.cycles = @ + 1]
          /\ cyc' = [CycIdle EXCEPT !.st = "auth"]
          /\ cyc_failed' = {}
          /\ inflight' = Started(inflight)
     ELSE /\ inflight' = [inflight EXCEPT !.coalesced = TRUE]
          /\ UNCHANGED <<cyc, cyc_failed, used>>
  /\ UNCHANGED <<now, setup, window, token_expiry, snapshot,
                 quick_update_scheduled, call>>

\* _quick_update: the finally clause, after the refresh has returned.
QuickFinally ==
  /\ quick_update_task.st = "resumed"
  /\ quick_update_scheduled' = FALSE
  /\ quick_update_task' = NoTask
  /\ burst' = NoBurst
  /\ UNCHANGED <<now, setup, window, token_expiry, snapshot,
                 cycvars, call, used>>

\* A shutdown that leaves the quick-update task alone.
CancelTaskNever(task, started) ==
  task

\* quick_update_task.cancel() on a task that is not done: a task that has
\* started gets CancelledError at the await it is in; a task that was created
\* and has not run yet never runs.
CancelTask(task, started) ==
  IF task.st = "none" THEN task
  ELSE IF started THEN [task EXCEPT !.st = "cancelled"]
  ELSE NoTask

\* A task created at time t may not have run yet at time t.
MayNotHaveStarted(task, t) ==
  task.st = "sleeping" /\ task.deadline = t + QUICK_UPDATE_INTERVAL

\* async_shutdown, called by async_unload_entry once the platforms are
\* unloaded: the unfinished quick-update task is cancelled and the session
\* is closed.  What the base class does next is not part of this model.
Shutdown(started) ==
  /\ session = "open"
  /\ started \/ MayNotHaveStarted(quick_update_task, now)
  /\ quick_update_task' = CancelTask(quick_update_task, started)
  /\ session' = "closed"
  /\ UNCHANGED <<now, config_entry, update_interval, api_rate_limit, payload,
                 budget, window, token_expiry, snapshot,
                 quick_update_scheduled, burst, cycvars, call, used>>

\* A _quick_update whose finally clause is an else clause.
AfterCancelledErrorElse(q) ==
  [q EXCEPT !.task = NoTask]

\* _quick_update: except asyncio.CancelledError, then the finally clause.
AfterCancelledError(q) ==
  [flag |-> FALSE, task |-> NoTask, burst |-> NoBurst]

\* _quick_update: the cancelled task runs.
QuickCancelled ==
  /\ quick_update_task.st = "cancelled"
  /\ LET q == AfterCancelledError(QuickState)
     IN /\ quick_update_scheduled' = q.flag
        /\ quick_update_task' = q.task
        /\ burst' = q.burst
  /\ UNCHANGED <<now, setup, window, token_expiry, snapshot,
                 cycvars, call, used>>

\* --------------------------------------------------------------- client calls

CallIdle == [st |-> "idle", op |-> "none", device_id |-> "", component_id |-> 0,
             value |-> 0, checks |-> <<>>, put |-> <<>>, res |-> "none",
             cause |-> "none", closed |-> FALSE]

\* The call returns res; cause names the branch that returned.
Returned(c, res, cause) ==
  [CallIdle EXCEPT !.st = "done", !.op = c.op, !.checks = c.checks,
                   !.res = res, !.cause = cause]

\* A request that carries the value in another field.
PutRequestReported(dev, comp, val) ==
  [device_id |-> dev, component_id |-> comp, body |-> [reportedValue |-> val]]

\* The request set_*_value sends: the URL is made of the device and the
\* component, the JSON body is {"desiredValue": value}.
PutRequest(dev, comp, val) ==
  [device_id |-> dev, component_id |-> comp, body |-> [desiredValue |-> val]]

\* A set_component_value that looks the component up by the id as it was
\* passed only, without str(component_id).
ComponentFoundByRawId(op, dev, comp) ==
  IF op = "set_component_value"
  THEN /\ DOMAIN device_components_data # {}
       /\ dev \in DOMAIN device_components_data
       /\ IntId(comp) \in device_components_data[dev]
  ELSE /\ DOMAIN device_components_data # {}
       /\ dev # ""
       /\ GetStrThenRaw(IF dev \in DOMAIN device_components_data
                        THEN device_components_data[dev] ELSE {}, IntId(comp))

\* The component test of the three operations.  set_component_value wants
\* the device to be a key of device_components_data and the component data
\* to be truthy; the other two take the components of a missing device as
\* {} and want the component data to be a dict.  The stored keys are
\* strings and the stored values non-empty dicts.
ComponentFound(op, dev, comp) ==
  IF op = "set_component_value"
  THEN /\ DOMAIN device_components_data # {}
       /\ dev \in DOMAIN device_components_data
       /\ GetStrThenRaw(device_components_data[dev], IntId(comp))
  ELSE /\ DOMAIN device_components_data # {}
       /\ dev # ""
       /\ GetStrThenRaw(IF dev \in DOMAIN device_components_data
                        THEN device_components_data[dev] ELSE {}, IntId(comp))

\* A set_*_value that records the API call before it looks the component up.
WriteLookupRecordingFirst(c, calls, last) ==
  LET c3 == [c EXCEPT !.checks = Append(@, "component")] IN
  IF ComponentFound(c.op, c.device_id, c.component_id)
  THEN [call |-> [c3 EXCEPT !.st = "put",
                            !.closed = session = "closed",
                            !.put = Append(@, PutRequest(c.device_id,
                                                         c.component_id, c.value))],
        calls |-> RecordCall(calls, now), last |-> now]
  ELSE [call |-> Returned(c3, "False", "not_found"),
        calls |-> RecordCall(calls, now), last |-> now]

\* set_*_value from the component test on: record the call and send the PUT,
\* or return False.
WriteLookup(c, calls, last) ==
  LET c3 == [c EXCEPT !.checks = Append(@, "component")] IN
  IF ComponentFound(c.op, c.device_id, c.component_id)
  THEN [call |-> [c3 EXCEPT !.st = "put",
                            !.closed = session = "closed",
                            !.put = Append(@, PutRequest(c.device_id,
                                                         c.component_id, c.value))],
        calls |-> RecordCall(calls, now), last |-> now]
  ELSE [call |-> Returned(c3, "False", "not_found"), calls |-> calls, last |-> last]

\* A set_*_value that goes on after the admission check refused.
WritePrefixUnchecked(c, calls, last, tok) ==
  LET purged == PurgeOld(calls, now)
      c2 == [c EXCEPT !.checks = <<"rate", "token">>]
  IN IF TokenStillValid(tok)
     THEN WriteLookup(c2, purged, last)
     ELSE [call |-> [c2 EXCEPT !.st = "tok"], calls |-> purged, last |-> last]

\* set_*_value from its first line to its first await or return.
WritePrefix(c, calls, last, tok) ==
  LET purged == PurgeOld(calls, now)
      c1 == [c EXCEPT !.checks = Append(@, "rate")]
      c2 == [c1 EXCEPT !.checks = Append(@, "token")]
  IN IF ~UnderLimit(purged)
     THEN [call |-> Returned(c1, "False", "skipped"), calls |-> purged, last |-> last]
     ELSE IF TokenStillValid(tok)
     THEN WriteLookup(c2, purged, last)
     ELSE [call |-> [c2 EXCEPT !.st = "tok"], calls |-> purged, last |-> last]

\* The call moves on: r is what WritePrefix and its like return.
CallMoves(r) ==
  /\ call' = r.call
  /\ api_calls' = r.calls
  /\ last_api_call' = r.last

\* set_component_value / set_temperature_value / set_power_value is called
\* by an entity; the entities are unloaded before the shutdown.
WriteBegins(op, dev, comp, val) ==
  /\ call.st \in {"idle", "done"}
  /\ session = "open"
  /\ Spent < budget
  /\ used' = [used EXCEPT !.ops = @ + 1]
  /\ CallMoves(WritePrefix([CallIdle EXCEPT !.op = op, !.device_id = dev,
                                            !.component_id = comp, !.value = val],
                           api_calls, last_api_call, token_expiry))
  /\ UNCHANGED <<now, setup, token_expiry, snapshot, quickvars, cycvars>>

\* set_*_value: refresh_token_if_needed() had to authenticate and has returned.
WriteTokenRefreshed(result) ==
  /\ call.st = "tok"
  /\ call.op \in WriteOps
  /\ Charge(result # "valid")
  /\ token_expiry' = ExpiryAfter(token_expiry, result)
  /\ IF result # "failed"
     THEN CallMoves(WriteLookup(call, api_calls, last_api_call))
     ELSE CallMoves([call |-> Returned(call, "False", "auth_failed"),
                     calls |-> api_calls, last |-> last_api_call])
  /\ UNCHANGED <<now, setup, snapshot, quickvars, cycvars>>

\* A set_*_value that schedules the quick update whatever the status.
WriteOutcomeAlwaysScheduling(c, status, q, t) ==
  IF status = HTTP_OK
  THEN [call |-> Returned(c, "True", "ok"), quick |-> ScheduleQuickUpdate(q, t)]
  ELSE IF status = TransportError
  THEN [call |-> Returned(c, "False", "exception"), quick |-> ScheduleQuickUpdate(q, t)]
  ELSE [call |-> Returned(c, "False", "http_error"), quick |-> ScheduleQuickUpdate(q, t)]

\* A set_*_value that reports success for every answered PUT.
WriteOutcomeIgnoringStatus(c, status, q, t) ==
  IF status = TransportError
  THEN [call |-> Returned(c, "False", "exception"), quick |-> q]
  ELSE IF status = HTTP_OK
  THEN [call |-> Returned(c, "True", "ok"), quick |-> ScheduleQuickUpdate(q, t)]
  ELSE [call |-> Returned(c, "True", "http_error"), quick |-> ScheduleQuickUpdate(q, t)]

\* set_*_value: what the response of the PUT makes of the call and of the
\* quick update.
WriteOutcome(c, status, q, t) ==
  IF status = HTTP_OK
  THEN [call |-> Returned(c, "True", "ok"), quick |-> ScheduleQuickUpdate(q, t)]
  ELSE IF status = TransportError
  THEN [call |-> Returned(c, "False", "exception"), quick |-> q]
  ELSE [call |-> Returned(c, "False", "http_error"), quick |-> q]

\* A set_*_value that drops the cached components of the device on success.
WriteResponseInvalidating(status) ==
  /\ call.st = "put"
  /\ call.closed => status = TransportError
  /\ ChargeSent(status # HTTP_OK, call.closed)
  /\ LET r == WriteOutcome(call, status, QuickState, now)
     IN /\ call' = r.call
        /\ quick_update_scheduled' = r.quick.flag
        /\ quick_update_task' = r.quick.task
        /\ burst' = r.quick.burst
  /\ device_components_data' =
       IF status = HTTP_OK
       THEN [d \in DOMAIN device_components_data |-> {}]
       ELSE device_components_data
  /\ UNCHANGED <<now, setup, window, token_expiry, devices,
                 consumer_data, user_profile_data, pool_status_data,
                 user_pools_data, device_uiconfig_data, error_information,
                 cycvars>>

\* set_*_value: the response of the PUT (or the exception it raised, the
\* only outcome of a PUT made on a closed session).
WriteResponse(status) ==
  /\ call.st = "put"
  /\ call.closed => status = TransportError
  /\ ChargeSent(status # HTTP_OK, call.closed)
  /\ LET r == WriteOutcome(call, status, QuickState, now)
     IN /\ call' = r.call
        /\ quick_update_scheduled' = r.quick.flag
        /\ quick_update_task' = r.quick.task
        /\ burst' = r.quick.burst
  /\ UNCHANGED <<now, setup, window, token_expiry, snapshot, cycvars>>

\* get_device_component_data from its first line to its first await or return.
ReadPrefix(c, calls, last, tok) ==
  LET purged == PurgeOld(calls, now)
      c1 == [c EXCEPT !.checks = Append(@, "rate")]
      c2 == [c1 EXCEPT !.checks = Append(@, "token")]
  IN IF ~UnderLimit(purged)
     THEN [call |-> Returned(c1, "None", "skipped"), calls |-> purged, last |-> last]
     ELSE IF TokenStillValid(tok)
     THEN [call |-> [c2 EXCEPT !.st = "get", !.closed = session = "closed"],
           calls |-> RecordCall(purged, now), last |-> now]
     ELSE [call |-> [c2 EXCEPT !.st = "tok"], calls |-> purged, last |-> last]

\* get_device_component_data is called by an entity; the entities are
\* unloaded before the shutdown.
ReadBegins(dev, comp) ==
  /\ call.st \in {"idle", "done"}
  /\ session = "open"
  /\ Spent < budget
  /\ used' = [used EXCEPT !.ops = @ + 1]
  /\ CallMoves(ReadPrefix([CallIdle EXCEPT !.op = "get_device_component_data",
                                           !.device_id = dev,
                                           !.component_id = comp],
                          api_calls, last_api_call, token_expiry))
  /\ UNCHANGED <<now, setup, token_expiry, snapshot, quickvars, cycvars>>

\* get_device_component_data: refresh_token_if_needed() has returned.
ReadTokenRefreshed(result) ==
  /\ call.st = "tok"
  /\ call.op = "get_device_component_data"
  /\ Charge(result # "valid")
  /\ token_expiry' = ExpiryAfter(token_expiry, result)
  /\ IF result # "failed"
     THEN CallMoves([call |-> [call EXCEPT !.st = "get",
                                           !.closed = session = "closed"],
                     calls |-> RecordCall(api_calls, now), last |-> now])
     ELSE CallMoves([call |-> Returned(call, "None", "auth_failed"),
                     calls |-> api_calls, last |-> last_api_call])
  /\ UNCHANGED <<now, setup, snapshot, quickvars, cycvars>>

\* get_device_component_data: the response of the GET.
ReadResponse(status) ==
  /\ call.st = "get"
  /\ call.closed => status = TransportError
  /\ ChargeSent(status # HTTP_OK, call.closed)
  /\ call' = IF status = HTTP_OK THEN Returned(call, "data", "ok")
             ELSE IF status = TransportError
             THEN Returned(call, "None", "exception")
             ELSE Returned(call, "None", "http_error")
  /\ UNCHANGED <<now, setup, window, token_expiry, snapshot,
                 quickvars, cycvars>>

\* --------------------------------------------------------------------- system

\* Time passes.  The clock is coarse: its instants are seconds apart and the
\* requests of a refresh cycle are answered within the instant in which they
\* were sent, so the clock moves while the cycle is idle or in a retry delay.
Tick ==
  /\ cyc.st \in {"idle", "sleep"}
  /\ \E t \in Instants : t > now /\ now' = t
  /\ UNCHANGED <<setup, window, token_expiry, snapshot, quickvars,
                 cycvars, call, used>>

\* No payload has been handed to a normalizer.
NoPayload == [source |-> 0, body |-> JScalar]

\* The state after the construction of a coordinator for an entry with the
\* given data.
InitWith(data) ==
  /\ now = 0
  /\ config_entry = Loaded(data)
  /\ update_interval = ClampScanInterval(data.update_interval)
  /\ api_rate_limit = ClampRateLimit(data.api_rate_limit)
  /\ payload = NoPayload
  /\ session = "open"
  /\ api_calls = <<>>
  /\ last_api_call = -1
  /\ token_expiry = "none"
  /\ consumer_data = Empty
  /\ devices = <<>>
  /\ user_profile_data = Empty
  /\ pool_status_data = Empty
  /\ user_pools_data = Empty
  /\ device_components_data = <<>>
  /\ device_uiconfig_data = Empty
  /\ error_information = NoErrorInformation
  /\ quick_update_scheduled = FALSE
  /\ quick_update_task = NoTask
  /\ burst = NoBurst
  /\ cyc = CycIdle
  /\ cyc_failed = {}
  /\ inflight = NoRefresh
  /\ call = CallIdle
  /\ used = [cycles |-> 0, ops |-> 0, faults |-> 0]

\* The entry the config flow creates; the rate limit is the smallest one.
Init ==
  /\ InitWith(EntryData(DEFAULT_SCAN_INTERVAL, MIN_API_RATE_LIMIT, "default_device"))
  /\ budget = MaxEvents

Next ==
  \/ Tick
  \/ StartRefresh
  \/ \E result \in AuthResults : CycleAuthenticated(result)
  \/ \E result \in AuthResults : CycleTokenRefreshed(result)
  \/ CycleRetryDelayOver
  \/ \E resp \in Responses(cyc.src) : CycleResponse(resp)
  \/ \E result \in AuthResults : CycleReauthenticated(result)
  \/ \E resp \in Responses(cyc.src) : CycleRetryResponse(resp)
  \/ QuickSleepOver
  \/ QuickFinally
  \/ \E op \in WriteOps, dev \in DeviceIds, comp \in ComponentIds,
        val \in DesiredValues : WriteBegins(op, dev, comp, val)
  \/ \E result \in AuthResults : WriteTokenRefreshed(result)
  \/ \E status \in Statuses : WriteResponse(status)
  \/ \E dev \in DeviceIds, comp \in ComponentIds : ReadBegins(dev, comp)
  \/ \E result \in AuthResults : ReadTokenRefreshed(result)
  \/ \E status \in Statuses : ReadResponse(status)

Spec == Init /\ [][Next]_vars

\* ------------------------------------------- set up and normalizers alone

\* Device ids found in the config entry (CONF_DEVICE_ID).
ConfiguredDeviceIds == {None, "default_device", "d2"}

\* Sample devices of the devices payload.
DeviceA == RawDevice("d1", <<>>, <<IntId(19)>>)
DeviceB == RawDevice("d1", <<>>, <<StrId("19"), NoId>>)
DeviceC ==
  RawDevice("d2", <<Alarm("warning", None, None),
                    Alarm("error", "AUTH_FAILED", "text"),
                    Alarm("error", "E002", "Pump blocked")>>, <<>>)
DeviceD == RawDevice("d3", <<>>, <<IntId(0)>>)
SampleDevices == {DeviceA, DeviceB, DeviceC, DeviceD, NoDevice}

\* Sample payloads of the devices endpoint: each device in the three shapes,
\* lists of several items, a device whose alarms are none of type error, and
\* no JSON object.
SampleDevicePayloads ==
  {JList(<<d>>) : d \in SampleDevices}
    \cup {JEnvelope(<<d>>) : d \in SampleDevices}
    \cup {JObject(d) : d \in SampleDevices}
    \cup {JList(<<>>), JList(<<DeviceA, DeviceC, DeviceD>>),
          JList(<<DeviceA, DeviceC, DeviceB>>), JList(<<DeviceA, NotADevice>>),
          JList(<<RawDevice("d4", <<Alarm("warning", "W001", None),
                                    Alarm("info", None, None)>>, <<>>)>>),
          JScalar}

\* Sample payloads of the components endpoint.
SampleComponentPayloads ==
  {JList(<<IntId(19)>>), JList(<<StrId("19")>>), JEnvelope(<<IntId(19), NoId>>),
   JObject(NoDevice), JScalar}

rest == <<now, window, token_expiry, consumer_data, user_profile_data,
          pool_status_data, user_pools_data, device_uiconfig_data, quickvars,
          cycvars, call, used, budget, session>>

\* FluidraPoolOptionsFlow.async_step_init with user_input: the entry is
\* updated with the clamped values and keeps the input as its options; an
\* entry whose data changed is set up again (async_reload_entry).  The
\* handler takes any numbers; the schema of the form it shows is applied by
\* the flow manager before the handler is called.
OptionsSubmitted(interval, limit) ==
  /\ config_entry.state = "loaded"
  /\ LET input == UserInput(interval, limit)
         data == OptionsData(config_entry.data, input)
     IN config_entry' = IF data = config_entry.data
                        THEN [config_entry EXCEPT !.options = input]
                        ELSE NotLoaded(data, input)
  /\ UNCHANGED <<update_interval, api_rate_limit, payload, snapshot, rest>>

\* async_setup_entry: a coordinator is made for the entry.
SetupEntry ==
  /\ config_entry.state = "not_loaded"
  /\ config_entry' = [config_entry EXCEPT !.state = "loaded"]
  /\ update_interval' = ClampScanInterval(config_entry.data.update_interval)
  /\ api_rate_limit' = ClampRateLimit(config_entry.data.api_rate_limit)
  /\ devices' = <<>>
  /\ device_components_data' = <<>>
  /\ error_information' = NoErrorInformation
  /\ UNCHANGED <<payload, rest>>

\* _fetch_devices_data on a 200: self.devices = _process_devices_data(raw)
DevicesFetched(raw) ==
  /\ config_entry.state = "loaded"
  /\ payload' = [source |-> DEVICES, body |-> raw]
  /\ devices' = ProcessDevicesData(raw)
  /\ UNCHANGED <<config_entry, update_interval, api_rate_limit,
                 device_components_data, error_information, rest>>

\* _fetch_device_components_data on a 200 for the first device:
\* self.device_components_data[device_id] = _process_device_components_data(raw)
ComponentsFetched(raw) ==
  /\ config_entry.state = "loaded"
  /\ devices # <<>>
  /\ payload' = [source |-> DEVICE_COMPONENTS, body |-> raw]
  /\ device_components_data' =
       [d \in DOMAIN device_components_data \cup {Head(devices).id} |->
          IF d = Head(devices).id THEN ProcessDeviceComponentsData(raw)
          ELSE device_components_data[d]]
  /\ UNCHANGED <<config_entry, update_interval, api_rate_limit, devices,
                 error_information, rest>>

\* _process_error_information
ErrorInformationProcessed ==
  /\ config_entry.state = "loaded"
  /\ error_information' =
       DeriveErrorInformation(devices, config_entry.data.device_id, now)
  /\ UNCHANGED <<config_entry, update_interval, api_rate_limit, payload,
                 devices, device_components_data, rest>>

\* ------------------------------------------------- the refresh cycle alone

\* The coordinator with no client call and no control write: refreshes are
\* requested and every call a cycle awaits returns.
CycleInit ==
  /\ InitWith(EntryData(DEFAULT_SCAN_INTERVAL, MIN_API_RATE_LIMIT, "default_device"))
  /\ budget = MaxCycleEvents

\* A call the cycle awaits returns: authenticate(), refresh_token_if_needed(),
\* asyncio.sleep(RETRY_DELAY), session.get.
CycleCallReturns ==
  \/ \E result \in AuthResults : CycleAuthenticated(result)
  \/ \E result \in AuthResults : CycleTokenRefreshed(result)
  \/ CycleRetryDelayOver
  \/ \E resp \in Responses(cyc.src) : CycleResponse(resp)
  \/ \E result \in AuthResults : CycleReauthenticated(result)
  \/ \E resp \in Responses(cyc.src) : CycleRetryResponse(resp)

CycleNext ==
  \/ Tick
  \/ StartRefresh
  \/ \E result \in AuthResults : CycleAuthenticated(result)
  \/ \E result \in AuthResults : CycleTokenRefreshed(result)
  \/ CycleRetryDelayOver
  \/ \E resp \in Responses(cyc.src) : CycleResponse(resp)
  \/ \E result \in AuthResults : CycleReauthenticated(result)
  \/ \E resp \in Responses(cyc.src) : CycleRetryResponse(resp)

\* The event loop resumes a task whose awaited call has returned.
CycleSpec == CycleInit /\ [][CycleNext]_vars /\ WF_vars(CycleCallReturns)

\* --------------------------------------------- the coordinator to its end

LifeInit ==
  /\ InitWith(EntryData(DEFAULT_SCAN_INTERVAL, MIN_API_RATE_LIMIT, "default_device"))
  /\ budget = MaxLifeEvents

\* The coordinator of an entry that is unloaded at some point: its refresh
\* cycles, the control writes and their quick updates, and the shutdown.
LifeNext ==
  \/ Tick
  \/ StartRefresh
  \/ CycleCallReturns
  \/ QuickSleepOver
  \/ QuickFinally
  \/ \E op \in WriteOps, dev \in DeviceIds, comp \in ComponentIds,
        val \in DesiredValues : WriteBegins(op, dev, comp, val)
  \/ \E result \in AuthResults : WriteTokenRefreshed(result)
  \/ \E status \in Statuses : WriteResponse(status)
  \/ \E started \in BOOLEAN : Shutdown(started)
  \/ QuickCancelled

LifeSpec == LifeInit /\ [][LifeNext]_vars

DataInit ==
  /\ \E c \in ConfiguredSettings, d \in ConfiguredDeviceIds :
       InitWith(EntryData(c[1], c[2], d))
  /\ budget = MaxEvents

DataNext ==
  \/ \E c \in ConfiguredSettings : OptionsSubmitted(c[1], c[2])
  \/ SetupEntry
  \/ \E raw \in SampleDevicePayloads : DevicesFetched(raw)
  \/ \E raw \in SampleComponentPayloads : ComponentsFetched(raw)
  \/ ErrorInformationProcessed

DataSpec == DataInit /\ [][DataNext]_vars

\* --------------------------------------------------------------- properties

\* The timestamps of the window that are newer than RATE_WINDOW seconds.
FreshCalls ==
  {i \in DOMAIN api_calls : now - api_calls[i] < RATE_WINDOW}

\* A step of the refresh cycle, of a client call, of a control write.
CycleStep == cyc' # cyc
CallStep == call' # call
WriteStep == CallStep /\ (call.op \in WriteOps \/ call'.op \in WriteOps)

\* The step in which a fetch function of the cycle gives up on its request:
\* a response other than 200 that is not retried, or a failed
\* re-authentication after a 401.
FetchFails ==
  /\ CycleStep
  /\ cyc.st \in {"get", "reget", "reauth"}
  /\ cyc'.st \notin {"reauth", "reget"}
  /\ used'.faults > used.faults

\* The step in which the refresh cycle returns, authenticated.
CycleReturns ==
  /\ cyc.st \notin {"idle", "auth"}
  /\ cyc'.st = "idle"

\* The stored data of source s is the empty value (for the components: the
\* entry of device d).
EmptyData(s, d) ==
  CASE s = CONSUMER -> consumer_data = Empty
    [] s = DEVICES -> devices = <<>>
    [] s = USER_PROFILE -> user_profile_data = Empty
    [] s = USER_POOLS -> user_pools_data = Empty
    [] s = DEVICE_COMPONENTS ->
         d \in DOMAIN device_components_data /\ device_components_data[d] = {}
    [] s = DEVICE_UICONFIG -> device_uiconfig_data = Empty

\* The stored data of source s (for the components: those of device d, none
\* while the device has no entry).
DataOf(s, d) ==
  CASE s = CONSUMER -> consumer_data
    [] s = DEVICES -> devices
    [] s = USER_PROFILE -> user_profile_data
    [] s = USER_POOLS -> user_pools_data
    [] s = DEVICE_COMPONENTS ->
         IF d \in DOMAIN device_components_data
         THEN device_components_data[d] ELSE {}
    [] s = DEVICE_UICONFIG -> device_uiconfig_data

\* The step in which a control write gets the answer to its PUT: a 200, or
\* anything else.
PutAnswered == call.st = "put" /\ CallStep
PutSucceeds == PutAnswered /\ used' = used
PutFails == PutAnswered /\ used'.faults > used.faults

FailureCauses == {"skipped", "auth_failed", "not_found", "http_error"}

\* C1: in every reachable state the rate window holds at most api_rate_limit
\* timestamps newer than 60 seconds.
C1_WindowWithinLimit ==
  Cardinality(FreshCalls) <= api_rate_limit

\* C2: the calls of schedule_quick_update made since the flag was last clear
\* have created exactly one quick-update task, and that task requests exactly
\* one refresh: none while it sleeps, one once its sleep is over.
C2_OneTaskOneRefresh ==
  /\ quick_update_scheduled <=> quick_update_task.st # "none"
  /\ quick_update_scheduled <=> burst.calls >= 1
  /\ burst.calls >= 1 => burst.made = 1
  /\ burst.reqs = IF quick_update_task.st \in {"refreshing", "resumed"}
                  THEN 1 ELSE 0

C2_Witness ==
  /\ burst.calls = 2
  /\ burst.made = 1
  /\ burst.reqs = 1
  /\ quick_update_task.st = "refreshing"

\* C3: the quick refresh fires no earlier than QUICK_UPDATE_INTERVAL seconds
\* after the last call of schedule_quick_update.
C3_FiresAfterLastCall ==
  [][(quick_update_task.st = "sleeping" /\ quick_update_task'.st = "refreshing")
       => now >= burst.last_call + QUICK_UPDATE_INTERVAL]_vars

\* C4 as stated: when a source has failed in a cycle and a device list is
\* known (from this cycle if the devices fetch succeeded, from an earlier one
\* otherwise), the cycle returns only after the last source, the UI config.
C4_FailureSkipsNoSource ==
  [][(/\ CycleReturns
      /\ cyc_failed # {}
      /\ IF DEVICES \in cyc_failed
         THEN DOMAIN device_components_data # {}
         ELSE devices # <<>>)
       => cyc.src = DEVICE_UICONFIG]_vars

\* C4 amended: a failed fetch never ends the cycle, which goes on to a later
\* source; the cycle returns after the user pools when the device list is
\* empty at that point (as a failed devices fetch leaves it) and after the UI
\* config otherwise.
C4_FailureEndsNoCycle ==
  [][/\ (FetchFails /\ cyc.src < USER_POOLS)
          => cyc'.st # "idle" /\ cyc'.src > cyc.src
     /\ CycleReturns
          => cyc.src = (IF devices' = <<>> THEN USER_POOLS ELSE DEVICE_UICONFIG)
    ]_vars

C4_Witness ==
  /\ cyc.st = "get"
  /\ cyc.src = USER_POOLS
  /\ cyc_failed = {DEVICES}
  /\ DOMAIN device_components_data # {}

\* C5 as stated: a fetch that fails leaves the stored data of its source as
\* it was.
C5_FailureKeepsData ==
  [][\A s \in Sources, d \in DeviceIds \cup {""} :
       (FetchFails /\ cyc.src = s /\ cyc.dev = d) => DataOf(s, d)' = DataOf(s, d)
    ]_vars

\* C5 amended: a fetch that fails with a response other than 200 or with an
\* exception replaces the stored data of its source by the empty value; the
\* data is left as it was by every step of the cycle that is no response to
\* a request.
C5_FailureEmptiesData ==
  [][/\ \A s \in Sources, d \in DeviceIds \cup {""} :
          (FetchFails /\ cyc.src = s /\ cyc.dev = d) => EmptyData(s, d)'
     /\ (CycleStep /\ cyc.st \notin {"get", "reget", "reauth"})
          => UNCHANGED fetched
    ]_vars

C5_Witness ==
  /\ used.cycles = 2
  /\ used.faults = 1
  /\ cyc_failed = {CONSUMER}
  /\ consumer_data = Empty
  /\ devices # <<>>

C7_FailedPutReturnsFalse ==
  [][PutFails =>
       /\ call'.st = "done"
       /\ call'.res = "False"
       /\ UNCHANGED <<quick_update_scheduled, quick_update_task, burst>>
       /\ UNCHANGED window
    ]_vars

C7_Witness ==
  /\ call.st = "done"
  /\ call.op \in WriteOps
  /\ call.cause = "http_error"
  /\ call.res = "False"
  /\ ~quick_update_scheduled

\* C8: a control write makes its checks in the order rate limit, token,
\* component and returns at the first that fails: a refused admission
\* returns at once without a token refresh, and a PUT is sent only after all
\* three checks.
C8_ChecksInOrder ==
  /\ [](call.op \in WriteOps =>
          /\ call.checks \in {<<"rate">>, <<"rate", "token">>,
                              <<"rate", "token", "component">>}
          /\ call.st = "tok" => call.checks = <<"rate", "token">>
          /\ call.st = "put" => call.checks = <<"rate", "token", "component">>
          /\ call.put # <<>> => call.checks = <<"rate", "token", "component">>
          /\ call.cause = "skipped" => call.checks = <<"rate">>
          /\ call.cause = "auth_failed" => call.checks = <<"rate", "token">>
          /\ call.cause = "not_found" => call.checks = <<"rate", "token", "component">>)
  /\ [][(/\ used'.ops > used.ops
         /\ call'.op \in WriteOps
         /\ ~UnderLimit(PurgeOld(api_calls, now)))
          => /\ call'.st = "done"
             /\ call'.cause = "skipped"
             /\ call'.put = <<>>
             /\ token_expiry' = token_expiry
             /\ last_api_call' = last_api_call
       ]_vars

C8_Witness ==
  /\ call.st = "done"
  /\ call.op \in WriteOps
  /\ call.cause = "skipped"
  /\ call.checks = <<"rate">>

\* C9 as stated: two control writes that fail for different causes return
\* different results.
C9_CausesDiffer ==
  [][(/\ used'.ops > used.ops
      /\ call.op \in WriteOps /\ call.st = "done"
      /\ call'.op \in WriteOps /\ call'.st = "done"
      /\ call.cause \in FailureCauses
      /\ call'.cause \in FailureCauses
      /\ call'.cause # call.cause)
       => call'.res # call.res]_vars

\* C9 amended: a control write returns True when its PUT was answered by a
\* 200 and False in every other case, whatever the cause.
C9_ResultIsBoolean ==
  (call.st = "done" /\ call.op \in WriteOps) =>
     /\ call.res \in {"True", "False"}
     /\ call.res = "True" <=> call.cause = "ok"
     /\ call.cause \in FailureCauses \cup {"exception", "ok"}

C9_Witness ==
  /\ call.st = "done"
  /\ call.op \in WriteOps
  /\ call.cause = "not_found"
  /\ call.res = "False"

\* C10: no step of a control write changes a field of the snapshot; the
\* snapshot changes only in the step of a refresh cycle that takes the
\* response to a request.
C10_WritesLeaveSnapshot ==
  [][/\ WriteStep => UNCHANGED snapshot
     /\ snapshot' # snapshot => CycleStep /\ cyc.st \in {"get", "reget", "reauth"}
    ]_vars

C10_Witness ==
  /\ call.st = "done"
  /\ call.op = "set_power_value"
  /\ call.cause = "ok"
  /\ device_components_data # <<>>
  /\ consumer_data # Empty

\* A step of _process_error_information that changes the record.
ErrorInformationStep ==
  /\ error_information' # error_information
  /\ UNCHANGED <<config_entry, devices>>

\* No specific device is configured, or the configured id is not among the
\* known devices.
NoKnownDeviceConfigured ==
  \A i \in DOMAIN devices : devices[i].id # config_entry.data.device_id

\* C11: with no known device configured, the derived error information is
\* the record of the first device, in mapping order, that has an error
\* signal (an error code, an error message, or an alarm status other than
\* the "normal" of a device without alarms), and it is empty when no device
\* has one.
C11_FirstDeviceWithSignal ==
  [][(ErrorInformationStep /\ NoKnownDeviceConfigured) =>
       LET signalling == {i \in DOMAIN devices :
                            \/ Truthy(devices[i].error_code)
                            \/ Truthy(devices[i].error_message)
                            \/ devices[i].alarm_status # "normal"} IN
       error_information' =
         IF signalling = {} THEN NoErrorInformation
         ELSE ErrorRecord(devices[CHOOSE i \in signalling :
                                    \A j \in signalling : i <= j], now)
    ]_vars

\* C12: in the step in which a refresh cycle completes, error_information
\* becomes the derivation applied to the devices as they stand then; it is
\* not empty when a known device has an alarm of type "error".
C12_ErrorInformationDerived ==
  [][CycleReturns =>
       /\ error_information' =
            DeriveErrorInformation(devices', config_entry.data.device_id, now')
       /\ (\E i \in DOMAIN devices' : HasErrorAlarm(devices'[i].alarms))
            => error_information' # NoErrorInformation
    ]_vars

\* A step of _fetch_devices_data in which a payload is normalized.
DevicesStep ==
  /\ payload'.source = DEVICES
  /\ <<payload, devices>>' # <<payload, devices>>
  /\ UNCHANGED <<config_entry, device_components_data, error_information>>

\* C13: a device with an id, given as the bare list [d], as the envelope
\* {data: [d]} or as the single object d, is normalized to the same mapping:
\* its one key is d.id and its one value is the Device record of d.
C13_ShapesAgree ==
  [][\A d \in SampleDevices :
       (/\ DevicesStep
        /\ Truthy(d.id)
        /\ payload'.body \in {JList(<<d>>), JEnvelope(<<d>>), JObject(d)})
       => /\ Len(devices') = 1
          /\ devices'[1].id = d.id
          /\ devices'[1] = ProcessDevice(d)
    ]_vars

C13_Witness ==
  /\ payload = [source |-> DEVICES, body |-> JEnvelope(<<DeviceC>>)]
  /\ Len(devices) = 1
  /\ devices[1].id = "d2"
  /\ devices[1].alarm_status = "error"
  /\ devices[1].error_code = "AUTH_FAILED"

\* A step of _fetch_device_components_data in which a payload is normalized.
ComponentsStep ==
  /\ payload'.source = DEVICE_COMPONENTS
  /\ <<payload, device_components_data>>' # <<payload, device_components_data>>
  /\ UNCHANGED <<config_entry, devices, error_information>>

\* The components payload lists a component whose id is 19 or "19".
Lists19(raw) ==
  /\ raw.kind = "list" \/ (raw.kind = "object" /\ raw.data_is_list)
  /\ \E i \in DOMAIN raw.items : raw.items[i] \in {IntId(19), StrId("19")}

\* C14: a component the payload gives as 19 or as "19" is stored under the
\* one key "19" of the device's component map, and the lookup of the control
\* operations, with 19 or with "19", and the lookup of the entity reads
\* find it.
C14_EitherFormFound ==
  [][(ComponentsStep /\ Lists19(payload'.body)) =>
       LET keys == device_components_data'[Head(devices).id] IN
       /\ keys \cap {IntId(19), StrId("19")} = {StrId("19")}
       /\ GetStrThenRaw(keys, IntId(19))
       /\ GetStrThenRaw(keys, StrId("19"))
       /\ GetIntThenStr(keys, 19)
    ]_vars

C14_Witness ==
  /\ payload = [source |-> DEVICE_COMPONENTS, body |-> JList(<<IntId(19)>>)]
  /\ devices # <<>>
  /\ Head(devices).id \in DOMAIN device_components_data
  /\ device_components_data[Head(devices).id] = {StrId("19")}

\* C15: every key of the component mapping of every stored device record
\* is a string.
C15_DeviceComponentKeysAreStrings ==
  \A i \in DOMAIN devices :
    \A key \in devices[i].components : key.t = "str"

Min2(a, b) == IF a <= b THEN a ELSE b
Max2(a, b) == IF a >= b THEN a ELSE b

\* The interval and the rate limit as configured: the options submitted
\* last, or the data of the entry when none were.
Configured ==
  IF config_entry.options = NoOptions THEN config_entry.data
  ELSE config_entry.options

AuthenticationFails ==
  /\ cyc.st = "auth"
  /\ cyc'.st = "idle"

\* C17: a cycle whose authentication fails ends there with the
\* authentication failure for its caller; the step sends no request, every
\* field of the snapshot and the rate window keep the values they had, and
\* a later request starts a cycle again.
C17_AuthFailureLeavesState ==
  [][AuthenticationFails =>
       /\ cyc'.out = "auth_failed"
       /\ UNCHANGED snapshot
       /\ UNCHANGED window
       /\ StartsCycle(cyc')
    ]_vars

C17_Witness ==
  /\ cyc.st = "idle"
  /\ cyc.out = "auth_failed"
  /\ devices # <<>>
  /\ device_components_data # <<>>
  /\ api_calls # <<>>

\* C18: the cycle ends in failure for its caller only in the step in which
\* its authentication fails; a cycle that got past its authentication
\* returns its summary, whatever the failures of its sources.
C18_OnlyAuthFails ==
  /\ [](cyc.out \in {"none", "data", "auth_failed"})
  /\ [][/\ CycleReturns => cyc'.out = "data"
        /\ (CycleStep /\ cyc'.out \notin {"none", "data"}) => cyc.st = "auth"
       ]_vars

C18_Witness ==
  /\ cyc.st = "idle"
  /\ cyc.out = "data"
  /\ used = [cycles |-> 1, ops |-> 0, faults |-> 3]
  /\ devices = <<>>

\* C19: at most one _async_update_data is in progress; a request starts one
\* only when none is in progress, and the request of the quick timer that
\* finds a cycle in progress leaves that cycle as it is.
C19_OneCycleAtATime ==
  /\ [](inflight.running = IF cyc.st = "idle" THEN 0 ELSE 1)
  /\ [][/\ inflight'.running > inflight.running => cyc.st = "idle"
        /\ (inflight'.coalesced /\ ~inflight.coalesced) =>
              /\ cyc.st # "idle"
              /\ UNCHANGED <<cyc, cyc_failed, used, window, snapshot>>
       ]_vars

C19_Witness ==
  /\ inflight = [running |-> 1, coalesced |-> TRUE]
  /\ quick_update_task.st = "refreshing"
  /\ cyc.st = "get"
  /\ cyc.src = USER_POOLS
  /\ used.cycles = 2

\* C20: the fields of the snapshot change together, in the step in which a
\* refresh cycle completes, so that no step of a reader falls between two
\* changes of one cycle.
C20_SnapshotChangesAtCompletion ==
  [][snapshot' # snapshot => (cyc.st # "idle" /\ cyc'.st = "idle")]_vars

\* The step in which the admission check of a client call refuses: the call
\* returns at its first test.
AdmissionRefused ==
  /\ CallStep
  /\ call'.st = "done"
  /\ call'.cause = "skipped"

\* C22: the admission check changes the rate window by its purge alone.  A
\* step whose admission check refuses leaves in api_calls the entries not
\* older than 60 seconds, in their order, appends nothing and leaves
\* last_api_call as it was; and every step that adds to the window adds one
\* entry, the current time, and sets last_api_call to it, as
\* _record_api_call does.
C22_CheckOnlyPurges ==
  [][LET kept == SelectSeq(api_calls, LAMBDA c : now - c < RATE_WINDOW)
         n == Len(api_calls')
     IN /\ AdmissionRefused =>
             api_calls' = kept /\ last_api_call' = last_api_call
        /\ api_calls' \notin {api_calls, kept} =>
             /\ n > 0
             /\ SubSeq(api_calls', 1, n - 1) \in {api_calls, kept}
             /\ api_calls'[n] = now
             /\ last_api_call' = now
        /\ api_calls' \in {api_calls, kept} => last_api_call' = last_api_call]_vars

\* A client call was refused with a full window.
C22_Witness ==
  /\ call.st = "done"
  /\ call.cause = "skipped"
  /\ Len(api_calls) >= api_rate_limit
  /\ last_api_call >= 0

\* C23: whenever a GET of the refresh cycle is in flight, for any of the six
\* sources, the admission check was made and passed in the attempt that
\* sent it.
C23_GetOnlyWhenAdmitted ==
  cyc.st \in {"get", "reget"} => cyc.admitted

\* The step in which the fetch function of a source of the cycle returns at
\* a refused admission.
FetchRefused ==
  cyc'.refused \ cyc.refused # {}

\* C24: a step in which the admission check refuses a fetch attempt sends no
\* request (the window gets no new entry), leaves the fetched data as it
\* was, and leaves the cycle waiting the retry delay of the refused source,
\* from which AfterRetryDelay makes the further attempt.
C24_RefusedAttemptIsRetried ==
  [][FetchRefused =>
       /\ api_calls' = SelectSeq(api_calls, LAMBDA c : now - c < RATE_WINDOW)
       /\ last_api_call' = last_api_call
       /\ UNCHANGED fetched
       /\ cyc'.st = "sleep"
       /\ cyc'.src \in cyc'.refused \ cyc.refused]_vars

\* C25: a step in which the HTTP call of a source fails for good in an
\* attempt (a status other than 200, a transport exception, or a 401 whose
\* re-authentication fails) leaves the cycle waiting the retry delay of that
\* source in that attempt, from which AfterRetryDelay makes the next attempt
\* while fewer than RETRY_ATTEMPTS were made.
C25_FailedAttemptIsRetried ==
  [][FetchFails =>
       /\ cyc'.st = "sleep"
       /\ cyc'.src = cyc.src
       /\ cyc'.att = cyc.att]_vars

\* What is left of a cycle at position c: the sources after c.src, then the
\* attempts after c.att, then the awaits of the attempt (the token refresh,
\* the GET, the re-authentication, the repeated GET, the retry delay).
Remaining(c) ==
  IF c.st = "idle" THEN 0
  ELSE IF c.st = "auth" THEN 100 * (DEVICE_UICONFIG + 1)
  ELSE 100 * (DEVICE_UICONFIG - c.src) + 10 * (RETRY_ATTEMPTS - c.att)
       + (CASE c.st = "tok" -> 5 [] c.st = "get" -> 4 [] c.st = "reauth" -> 3
            [] c.st = "reget" -> 2 [] c.st = "sleep" -> 1)

\* C26: no source is in an attempt beyond the third, whatever the outcomes;
\* every step of a cycle leaves strictly less of the cycle to do; and, every
\* awaited call returning, a cycle that has started leads to the idle
\* coordinator.
C26_CycleCompletes ==
  /\ [](cyc.att <= RETRY_ATTEMPTS)
  /\ [][CycleStep /\ cyc.st # "idle" =>
          Remaining(cyc') >= 0 /\ Remaining(cyc') < Remaining(cyc)]_vars
  /\ (cyc.st # "idle" ~> cyc.st = "idle")

\* The third attempt for a source has failed at its token refresh.
C26_Witness ==
  /\ cyc.st = "sleep"
  /\ cyc.att = RETRY_ATTEMPTS
  /\ used.cycles = 1

\* C27: in no cycle does a fetch function of any source take a 401 as its
\* final answer without authenticating again; and when the authentication
\* after a 401 succeeds the same GET is repeated once in that attempt, a 200
\* on the repeated GET storing the data of the source.
C27_ReauthenticatesAfter401 ==
  /\ [](cyc.final401 = {})
  /\ [][/\ cyc.st = "reauth" /\ CycleStep /\ used' = used =>
             cyc' = [cyc EXCEPT !.st = "reget"]
        /\ cyc.st = "reget" /\ CycleStep =>
             /\ cyc'.st \notin {"reauth", "reget"}
             /\ used' = used =>
                  \A s \in {cyc.src}, d \in {cyc.dev} :
                    DataOf(s, d)' \in
                      {Stored(s, [status |-> HTTP_OK, body |-> b]) : b \in Bodies(s)}]_vars

\* C28: within a cycle the source in progress never goes back in the order
\* consumer profile, devices, user profile, user pools, device components,
\* device UI-config, one source being in progress at a time; and while the
\* device components or the UI config are in progress the device map is not
\* empty and the device asked about is its first one.
C28_SourcesInOrder ==
  /\ [](cyc.st \notin {"idle", "auth"} =>
          cyc.src \in CONSUMER .. DEVICE_UICONFIG)
  /\ [][cyc.st # "idle" /\ cyc'.st # "idle" => cyc'.src >= cyc.src]_vars
  /\ [](cyc.src \in {DEVICE_COMPONENTS, DEVICE_UICONFIG} =>
          /\ devices # <<>>
          /\ cyc.dev = Head(devices).id)

\* The UI config of the first of two devices is being fetched.
C28_Witness ==
  /\ cyc.st = "get"
  /\ cyc.src = DEVICE_UICONFIG
  /\ Len(devices) = 2
  /\ cyc.dev = "d1"
  /\ devices[2].id = "d2"

\* C30: when a control write returns success there is a quick-update task
\* that has still to request its refresh, so that a cycle requested by a
\* quick update starts after the write; this in every interleaving, that of
\* a write answered while an earlier quick update runs its refresh included.
C30_SuccessLeavesQuickUpdatePending ==
  [][PutSucceeds =>
       /\ quick_update_scheduled'
       /\ quick_update_task'.st = "sleeping"]_vars

\* The step of async_shutdown.
ShutdownStep ==
  session = "open" /\ session' = "closed"

\* C21: the step of async_shutdown leaves the session closed and no
\* quick-update task that can still request a refresh (a pending task is
\* cancelled); the session stays closed; and a cancelled task requests no
\* refresh and starts no cycle: it ends.
C21_ShutdownCancelsQuickUpdate ==
  /\ [][ShutdownStep =>
          quick_update_task'.st \in {"none", "cancelled"}]_vars
  /\ [][session = "closed" => session' = "closed"]_vars
  /\ [][quick_update_task.st = "cancelled" =>
          /\ quick_update_task'.st \in {"cancelled", "none"}
          /\ burst'.reqs <= burst.reqs
          /\ cyc.st = "idle" => cyc'.st = "idle"]_vars

\* The coordinator was shut down while the quick update of a control write
\* slept: the task has ended, the only refresh cycle is the one that came
\* before the write, and the session is closed.
C21_Witness ==
  /\ session = "closed"
  /\ used = [cycles |-> 1, ops |-> 1, faults |-> 0]
  /\ call.res = "True"
  /\ quick_update_task = NoTask
  /\ ~quick_update_scheduled
  /\ now >= QUICK_UPDATE_INTERVAL

\* C29: a quick-update task that has started resets quick_update_scheduled
\* when it ends, however it ends.  The refresh it awaits is running, and the
\* end of that cycle, with data or with a failure, resumes the task; a
\* resumed or cancelled task can run, and the step it takes is the finally
\* clause, which leaves no task and the flag reset; no other step of a
\* started task ends it.  With the flag reset, a control write that succeeds
\* schedules a new quick update.
C29_FlagResetWhenTaskEnds ==
  /\ [](quick_update_task.st = "refreshing" => cyc.st # "idle")
  /\ [][quick_update_task.st = "refreshing" /\ cyc.st # "idle" /\ cyc'.st = "idle"
          => quick_update_task'.st = "resumed"]_vars
  /\ [](quick_update_task.st = "resumed" => ENABLED QuickFinally)
  /\ [](quick_update_task.st = "cancelled" => ENABLED QuickCancelled)
  /\ [][quick_update_task.st \in {"resumed", "cancelled"}
          /\ quick_update_task' # quick_update_task
          => \/ quick_update_task' = NoTask /\ ~quick_update_scheduled'
             \/ ShutdownStep /\ quick_update_task'.st = "cancelled"]_vars
  /\ [][quick_update_task.st # "none" /\ quick_update_task'.st = "none"
          /\ ~ShutdownStep
          => ~quick_update_scheduled']_vars
  /\ [][PutSucceeds /\ ~quick_update_scheduled =>
          quick_update_scheduled' /\ quick_update_task'.st = "sleeping"]_vars

\* The quick update of a first control write has made its refresh and
\* ended; a second control write, a minute later, has scheduled a new one.
C29_Witness ==
  /\ used = [cycles |-> 2, ops |-> 2, faults |-> 0]
  /\ call.res = "True"
  /\ quick_update_scheduled
  /\ quick_update_task.st = "sleeping"
  /\ quick_update_task.deadline = 62 + QUICK_UPDATE_INTERVAL

\* C31: a fetch attempt of a source sends a request only after
\* refresh_token_if_needed returned True in that attempt; an attempt whose
\* token check fails sends nothing and stores nothing, and after the third
\* such attempt the retry loop leaves the source with its stored data as it
\* was, without having called its fetch function.
C31_FetchOnlyAfterTokenCheck ==
  /\ [](cyc.st \in {"get", "reauth", "reget"} => cyc.checked)
  /\ [][cyc.st = "tok" /\ cyc'.st = "sleep" => UNCHANGED <<fetched, window>>]_vars
  /\ [][cyc.st = "sleep" /\ CycleStep
          => /\ UNCHANGED fetched
             /\ cyc'.st = "tok" => UNCHANGED window
             /\ cyc.att = RETRY_ATTEMPTS
                  => cyc'.st = "idle" \/ cyc'.src > cyc.src]_vars

\* Reached: the three attempts of the consumer source have failed their token
\* check, the cycle is at the devices source and no request was ever sent.
C31_Witness ==
  /\ cyc.st = "tok"
  /\ cyc.src = DEVICES
  /\ cyc.att = 1
  /\ api_calls = <<>>
  /\ consumer_data = Empty

\* C32: the normalized record of every device of the devices payload has
\* alarm_count equal to the number of alarms of the device, alarm_status
\* "error" when an alarm has type error, else "warning" when there is an
\* alarm, else "normal", and the error_code of the first alarm of type error
\* in list order (none without such an alarm).  The devices of the payload
\* are the items of its list, or the payload itself.
C32_AlarmSummary ==
  payload.source = DEVICES /\ devices # <<>> =>
    LET body == payload.body
        raw == IF body.kind = "list" \/ (body.kind = "object" /\ body.data_is_list)
               THEN body.items
               ELSE IF body.kind = "object" THEN <<body.obj>>
               ELSE <<>>
    IN
    /\ \A k \in DOMAIN raw :
          Truthy(raw[k].id) => \E i \in DOMAIN devices : devices[i].id = raw[k].id
    /\ \A i \in DOMAIN devices :
          \E k \in DOMAIN raw :
             /\ raw[k].id = devices[i].id
             /\ \A l \in DOMAIN raw : raw[l].id = devices[i].id => l <= k
             /\ LET alarms == raw[k].alarms
                    types == {alarms[j].type : j \in DOMAIN alarms}
                    first == {j \in DOMAIN alarms :
                                /\ alarms[j].type = "error"
                                /\ \A l \in 1..(j - 1) : alarms[l].type # "error"}
                IN /\ devices[i].alarm_count = Len(alarms)
                   /\ devices[i].alarm_status =
                        (IF "error" \in types THEN "error"
                         ELSE IF Len(alarms) > 0 THEN "warning" ELSE "normal")
                   /\ \A j \in first : devices[i].error_code = alarms[j].errorCode
                   /\ first = {} => devices[i].error_code = None

\* Reached: a device with a warning before two alarms of type error is
\* normalized next to a device without alarms.
C32_Witness ==
  /\ payload = [source |-> DEVICES, body |-> JList(<<DeviceA, DeviceC, DeviceD>>)]
  /\ Len(devices) = 3
  /\ devices[2].alarm_count = 3
  /\ devices[2].alarm_status = "error"
  /\ devices[2].error_code = "AUTH_FAILED"
  /\ devices[1].alarm_status = "normal"

\* C33: when the normalizer of the devices or of the components raises on a
\* payload (an item of the list that is no object, a payload that is no
\* JSON), the whole resource is stored as the empty mapping, and the
\* exception does not end the refresh cycle: the step that stored it has
\* moved the cycle to a later source, at no failure.
C33_NormalizerFailureGivesEmptyMapping ==
  /\ [](DEVICES \in cyc.raised => devices = <<>>)
  /\ [](DEVICE_COMPONENTS \in cyc.raised
          => /\ cyc.dev \in DOMAIN device_components_data
             /\ device_components_data[cyc.dev] = {})
  /\ [][cyc'.raised \ cyc.raised # {}
          => /\ cyc.st \in {"get", "reget"}
             /\ cyc'.st \in {"get", "tok"}
             /\ cyc'.src > cyc.src
             /\ cyc'.out = "none"
             /\ used' = used]_vars

\* Reached: the devices payload made the normalizer raise and the cycle is
\* at the GET of the user profile.
C33_Witness ==
  /\ cyc.raised = {DEVICES}
  /\ cyc.src = USER_PROFILE
  /\ cyc.st = "get"
  /\ devices = <<>>

\* C34: from a state in which a control write can be called, and with the
\* same device (one with cached components, one without, none), component
\* (one the device has, one it has not) and value, the three control writes
\* run alike: the same checks, the same PUT or the same return value, the
\* same rate window; a write that waits for its token goes on alike when
\* the token is there, and a write that waits for its PUT returns alike,
\* with the same quick-update state, for every status.  What a part of a
\* write returns is compared with the name of the operation left out.
C34_ControlWritesEquivalent ==
  LET CallOf(op, c) == [c EXCEPT !.op = op]
      Observed(r) == [r EXCEPT !.call.op = "set"]
  IN
  /\ call.st \in {"idle", "done"} =>
     \A dev \in DeviceIds \cup {"d2", ""}, comp \in ComponentIds \cup {13} :
       LET c == [CallIdle EXCEPT !.device_id = dev, !.component_id = comp,
                                 !.value = CHOOSE val \in DesiredValues : TRUE]
       IN /\ Cardinality({Observed(WritePrefix(CallOf(op, c), api_calls,
                                               last_api_call, token_expiry)) :
                            op \in WriteOps}) = 1
          /\ Cardinality({ComponentFound(op, dev, comp) : op \in WriteOps}) = 1
  /\ call.op \in WriteOps /\ call.st = "tok"
       => Cardinality({Observed(WriteLookup(CallOf(op, call), api_calls,
                                            last_api_call)) :
                         op \in WriteOps}) = 1
  /\ call.op \in WriteOps /\ call.st = "put"
       => \A status \in Statuses :
            Cardinality({Observed(WriteOutcome(CallOf(op, call), status,
                                               QuickState, now)) :
                           op \in WriteOps}) = 1

\* Reached: a set_temperature_value has sent its PUT for a component that
\* each of the three operations finds, while a second device is known that
\* has no cached components.
C34_Witness ==
  /\ call.op = "set_temperature_value"
  /\ call.st = "put"
  /\ Len(devices) = 2
  /\ DOMAIN device_components_data = {"d1"}
  /\ \A op \in WriteOps : ComponentFound(op, "d1", 15) /\ ~ComponentFound(op, "d2", 15)

\* The entries of the rate window made at the current instant.
RecordedNow(calls) ==
  Cardinality({i \in DOMAIN calls : calls[i] = now})

\* C35: every step that sends a request (the GET of a fetch, the repeated
\* GET after a 401 and a new authentication, the GET of a read, the PUT of a
\* control write) has recorded exactly one API call before it: the rate
\* window holds one more entry of the current instant and last_api_call is
\* that instant.
C35_EveryRequestRecorded ==
  [][(\/ CycleStep /\ cyc'.st \in {"get", "reget"}
      \/ CallStep /\ call'.st \in {"get", "put"})
       => /\ RecordedNow(api_calls') = RecordedNow(api_calls) + 1
          /\ last_api_call' = now]_vars

\* C36: whenever no refresh cycle is running, every device id that is a key
\* of device_components_data is a key of the devices map.
C36_ComponentsOfKnownDevices ==
  cyc.st = "idle" =>
    DOMAIN device_components_data \subseteq {devices[i].id : i \in DOMAIN devices}

\* C37: between the steps of the coordinator, quick_update_scheduled is set
\* exactly when there is a quick-update task that has not finished, and the
\* calls of schedule_quick_update made since the flag was last clear have
\* created at most one task.
C37_FlagIffUnfinishedTask ==
  /\ quick_update_scheduled <=> quick_update_task.st # "none"
  /\ burst.made <= 1

\* C38: a control write that returns at a precondition (the admission was
\* refused, the token refresh failed, or the component is not in the
\* components last fetched) appends nothing to the rate window (the
\* admission check may drop entries older than the window) and leaves
\* last_api_call and the quick-update state as they were; a step of a
\* control write adds an entry to the window only when it sends the PUT,
\* and then it adds one.
C38_PreconditionFailureRecordsNothing ==
  /\ [][CallStep /\ call'.op \in WriteOps /\ call'.st = "done"
          /\ call'.cause \in {"skipped", "auth_failed", "not_found"}
          => /\ api_calls' \in {api_calls, PurgeOld(api_calls, now)}
             /\ call'.put = <<>>
             /\ UNCHANGED <<last_api_call, quickvars>>]_vars
  /\ [][CallStep /\ call'.op \in WriteOps
          /\ RecordedNow(api_calls') # RecordedNow(api_calls)
          => /\ call'.st = "put"
             /\ call.st # "put"
             /\ Len(call'.put) = 1
             /\ RecordedNow(api_calls') = RecordedNow(api_calls) + 1
             /\ last_api_call' = now]_vars

\* Reached: a control write for a component the device does not have has
\* returned False with the window and last_api_call of the refresh cycle
\* before it, a minute later.
C38_Witness ==
  /\ call.op \in WriteOps
  /\ call.cause = "not_found"
  /\ call.checks = <<"rate", "token", "component">>
  /\ api_calls # <<>>
  /\ last_api_call < now
  /\ ~quick_update_scheduled

====
